---- MODULE Spec2Model ----
(***************************************************************************)
(* infseq: cached lazy infinite sequences (src/infseq.py).                 *)
(*                                                                         *)
(* State: the InfSequence objects constructed so far (heap), the LRU cache *)
(* that functools.lru_cache attaches to _InfSequenceBase._get_value, the   *)
(* live map object of the last bounded slice (view), and a record of the   *)
(* last operation with what it returned and what it touched (last).        *)
(*                                                                         *)
(* Values are numbers, written as reduced fractions <<n, d>> with d > 0:   *)
(* an int n is <<n, 1>>, the float that int / int yields is the fraction.  *)
(* Arithmetic is only ever applied to int-valued operands (IsInt guards    *)
(* the constructors), so no float rounding is involved.                    *)
(***************************************************************************)
EXTENDS Integers, Sequences, FiniteSets

VARIABLES heap, cache, view, last

vars == <<heap, cache, view, last>>

(***************************************************************************)
(* Bounds of the model.                                                    *)
(***************************************************************************)
\* capacity of the lru_cache, scaled down from the program's 1024
maxsize == 3
\* largest index a caller asks for
MaxIndex == 2
\* number of InfSequence objects a run constructs
MaxSeqs == 3

(***************************************************************************)
(* Numbers.                                                                *)
(***************************************************************************)
Abs(n) == IF n < 0 THEN -n ELSE n

Max(a, b) == IF a >= b THEN a ELSE b

RECURSIVE Gcd(_, _)
Gcd(a, b) == IF b = 0 THEN a ELSE Gcd(b, a % b)

Norm(n, d) ==
  LET g == Gcd(Abs(n), Abs(d))
      sg == IF d < 0 THEN -1 ELSE 1
  IN <<(sg * n) \div g, (sg * d) \div g>>

Num(n) == <<n, 1>>

RECURSIVE Pow(_, _)
Pow(b, e) == IF e = 0 THEN 1 ELSE b * Pow(b, e - 1)

\* floor(n / d) for d # 0, whatever the signs
FloorDiv(n, d) == IF d > 0 THEN n \div d ELSE (-n) \div (-d)

Ok(v) == [err |-> "", v |-> v]

Raise(e) == [err |-> e, v |-> Num(0)]

OpNames == {"add", "sub", "mul", "truediv", "floordiv", "pow"}

\* operands swapped: the sequence as the right operand
ApplyOpSwapped(op, x, y) ==
  CASE op = "add" -> Ok(Norm(y[1] * x[2] + x[1] * y[2], x[2] * y[2]))
    [] op = "sub" -> Ok(Norm(y[1] * x[2] - x[1] * y[2], x[2] * y[2]))
    [] op = "mul" -> Ok(Norm(x[1] * y[1], x[2] * y[2]))
    [] op = "truediv" ->
         IF x[1] = 0 THEN Raise("ZeroDivisionError")
         ELSE Ok(Norm(y[1] * x[2], y[2] * x[1]))
    [] op = "floordiv" ->
         IF x[1] = 0 THEN Raise("ZeroDivisionError")
         ELSE Ok(Num(FloorDiv(y[1] * x[2], y[2] * x[1])))
    [] op = "pow" ->
         IF x[1] >= 0 THEN Ok(Norm(Pow(y[1], x[1]), Pow(y[2], x[1])))
         ELSE IF y[1] = 0 THEN Raise("ZeroDivisionError")
         ELSE Ok(Norm(Pow(y[2], -x[1]), Pow(y[1], -x[1])))

\* a zero divisor yields 0 instead of raising
ApplyOpNoRaise(op, x, y) ==
  CASE op = "add" -> Ok(Norm(x[1] * y[2] + y[1] * x[2], x[2] * y[2]))
    [] op = "sub" -> Ok(Norm(x[1] * y[2] - y[1] * x[2], x[2] * y[2]))
    [] op = "mul" -> Ok(Norm(x[1] * y[1], x[2] * y[2]))
    [] op = "truediv" ->
         IF y[1] = 0 THEN Ok(Num(0))
         ELSE Ok(Norm(x[1] * y[2], x[2] * y[1]))
    [] op = "floordiv" ->
         IF y[1] = 0 THEN Ok(Num(0))
         ELSE Ok(Num(FloorDiv(x[1] * y[2], x[2] * y[1])))
    [] op = "pow" ->
         IF y[1] >= 0 THEN Ok(Norm(Pow(x[1], y[1]), Pow(x[2], y[1])))
         ELSE IF x[1] = 0 THEN Ok(Num(0))
         ELSE Ok(Norm(Pow(x[2], -y[1]), Pow(x[1], -y[1])))

\* getattr(operator, '__add__') ... '__pow__' applied to (x, y); the
\* exponent of pow is an int (y[2] = 1)
ApplyOp(op, x, y) ==
  CASE op = "add" -> Ok(Norm(x[1] * y[2] + y[1] * x[2], x[2] * y[2]))
    [] op = "sub" -> Ok(Norm(x[1] * y[2] - y[1] * x[2], x[2] * y[2]))
    [] op = "mul" -> Ok(Norm(x[1] * y[1], x[2] * y[2]))
    [] op = "truediv" ->
         IF y[1] = 0 THEN Raise("ZeroDivisionError")
         ELSE Ok(Norm(x[1] * y[2], x[2] * y[1]))
    [] op = "floordiv" ->
         IF y[1] = 0 THEN Raise("ZeroDivisionError")
         ELSE Ok(Num(FloorDiv(x[1] * y[2], x[2] * y[1])))
    [] op = "pow" ->
         IF y[1] >= 0 THEN Ok(Norm(Pow(x[1], y[1]), Pow(x[2], y[1])))
         ELSE IF x[1] = 0 THEN Raise("ZeroDivisionError")
         ELSE Ok(Norm(Pow(x[2], -y[1]), Pow(x[1], -y[1])))

(***************************************************************************)
(* Sequence objects: what the closure stored in _generator captured.       *)
(* rawstart and rawstep keep the slice arguments as the caller gave them   *)
(* (<<>> is None, <<n>> is n); the closure itself holds start and step.    *)
(***************************************************************************)
None == <<>>

Some(n) == <<n>>

Desc(kind) ==
  [kind |-> kind, op |-> "", self |-> 0, other |-> 0, k |-> 0,
   start |-> 0, step |-> 0, vals |-> <<>>, rawstart |-> None, rawstep |-> None]

\* InfSequence(k), k not callable
Const(k) == [Desc("const") EXCEPT !.k = k]

ArithmeticProgression(step, start_value) ==
  [Desc("ap") EXCEPT !.step = step, !.start = start_value]

Cycle(values_list) == [Desc("cycle") EXCEPT !.vals = values_list]

Fibonacci == Desc("fib")

\* the closure of _get_generator(op, k)
OpSeq(op, self, k) == [Desc("opseq") EXCEPT !.op = op, !.self = self, !.other = k]

OpScalar(op, self, k) == [Desc("opscalar") EXCEPT !.op = op, !.self = self, !.k = k]

MatMulDesc(self, other_seq) ==
  [Desc("matmul") EXCEPT !.self = self, !.other = other_seq]

\* start or 0
OrZero(start) == IF start = None \/ start = Some(0) THEN 0 ELSE start[1]

\* step or 1
OrOne(step) == IF step = None \/ step = Some(0) THEN 1 ELSE step[1]

SliceDesc(self, start, step) ==
  [Desc("slice") EXCEPT !.self = self, !.start = OrZero(start),
                        !.step = OrOne(step),
                        !.rawstart = start, !.rawstep = step]

\* the sequences whose values are ints at every index
RECURSIVE IsInt(_, _)
IsInt(h, s) ==
  LET d == h[s] IN
  CASE d.kind \in {"const", "ap", "cycle", "fib"} -> TRUE
    [] d.kind = "slice" -> IsInt(h, d.self)
    [] d.kind = "matmul" -> IsInt(h, d.self) /\ IsInt(h, d.other)
    [] d.kind = "opseq" ->
         d.op \in {"add", "sub", "mul", "floordiv"} /\ IsInt(h, d.self)
         /\ IsInt(h, d.other)
    [] d.kind = "opscalar" ->
         d.op \in {"add", "sub", "mul", "floordiv"} /\ IsInt(h, d.self)

\* range(start, stop, step), step # 0
RECURSIVE Range(_, _, _)
Range(start, stop, step) ==
  IF (step > 0 /\ start >= stop) \/ (step < 0 /\ start <= stop) THEN <<>>
  ELSE <<start>> \o Range(start + step, stop, step)

(***************************************************************************)
(* The lru_cache of _get_value: entries [s, i, v] for the key (self,       *)
(* index), least recently used first.                                      *)
(***************************************************************************)
\* the key compared by index alone
KeyMatchesIndexOnly(e, s, index) == e.i = index

KeyMatches(e, s, index) == e.s = s /\ e.i = index

Find(c, s, index) ==
  LET P == {p \in 1..Len(c) : KeyMatches(c[p], s, index)}
  IN IF P = {} THEN 0 ELSE CHOOSE p \in P : \A q \in P : p <= q

\* a hit makes the entry the most recently used
Touch(c, pos) == SubSeq(c, 1, pos - 1) \o SubSeq(c, pos + 1, Len(c)) \o <<c[pos]>>

IsFull(c) == Len(c) >= maxsize

\* lru_cache after a miss: nothing when the key arrived meanwhile, else the
\* new entry as most recently used, the least recently used one dropped
\* when the cache is full
Store(c, s, index, v) ==
  IF Find(c, s, index) # 0 THEN c
  ELSE IF IsFull(c) THEN Tail(c) \o <<[s |-> s, i |-> index, v |-> v]>>
  ELSE Append(c, [s |-> s, i |-> index, v |-> v])

Entries(c, s) == {p \in 1..Len(c) : c[p].s = s}

(***************************************************************************)
(* Evaluation.  One operation threads a record st through every call it    *)
(* makes: the cache, and what the operation did so far:                    *)
(*   gens     the (sequence, index) pairs a _generator was called on       *)
(*   calls    the _get_value calls in order, <<s, index, depth>>, depth    *)
(*            the number of generator activations on the stack             *)
(*   stored   the keys the cache stored (misses that returned)             *)
(*   evicted  the entries the cache dropped: the key, the sequence whose   *)
(*            entry replaced it, how many entries that key's sequence      *)
(*            held, and how many the cache held                            *)
(*   depth, maxdepth  generator activations on the stack now, and the most *)
(* An evaluation returns [st, err, v]: err is "" and v the value, or err   *)
(* names the exception raised.                                             *)
(***************************************************************************)
FreshSt(c) ==
  [cache |-> c, gens |-> {}, calls |-> <<>>, stored |-> {}, evicted |-> {},
   depth |-> 0, maxdepth |-> 0]

R(st, err, v) == [st |-> st, err |-> err, v |-> v]

\* an index as the caller gives it: an int, or some other object
IntIndex(n) == [int |-> TRUE, n |-> n]

NonIntIndex == [int |-> FALSE, n |-> 0]

\* the negative check left out
IndexErrorTypeOnly(index) == IF ~index.int THEN "TypeError" ELSE ""

\* __getitem__'s checks of a non-slice index
IndexError(index) ==
  IF ~index.int THEN "TypeError"
  ELSE IF index.n < 0 THEN "ValueError"
  ELSE ""

\* no forcing loop: plain recursion
FibRangeNone(index) == <<>>

\* range(index) of fibonacci's generator
FibRange(index) == Range(0, index, 1)

\* a product of the pair, as the comment in __matmul__ has it
MatMulTermProduct(x, y) == ApplyOp("mul", x, y)

\* self[i] + other_seq[index - i]
MatMulTerm(x, y) == ApplyOp("add", x, y)

\* range(index + 1) of __matmul__'s generator
MatMulRange(index) == Range(0, index + 1, 1)

RECURSIVE get_value(_, _, _, _), generator(_, _, _, _), getitem(_, _, _, _)
RECURSIVE fib_loop(_, _, _, _), matmul_sum(_, _, _, _, _, _)

\* the right operand read through its cache
ReadOperandCached(h, st, k, index) == get_value(h, st, k, index)

\* k._generator(index) in _get_generator
ReadOperand(h, st, k, index) == generator(h, st, k, index)

\* @lru_cache(maxsize=1024) def _get_value(self, index)
get_value(h, st, s, index) ==
  LET st1 == [st EXCEPT !.calls = Append(@, <<s, index, st.depth>>)]
      pos == Find(st1.cache, s, index)
  IN IF pos # 0
     THEN R([st1 EXCEPT !.cache = Touch(@, pos)], "", st1.cache[pos].v)
     ELSE LET r == generator(h, st1, s, index)
              c == r.st.cache
              full == Find(c, s, index) = 0 /\ IsFull(c)
          IN IF r.err # "" THEN r
             ELSE R([r.st EXCEPT
                       !.cache = Store(c, s, index, r.v),
                       !.stored = @ \cup {<<s, index>>},
                       !.evicted = IF full
                                   THEN @ \cup {[s |-> c[1].s, i |-> c[1].i,
                                                 by |-> s,
                                                 own |-> Cardinality(Entries(c, c[1].s)),
                                                 total |-> Len(c)]}
                                   ELSE @],
                    "", r.v)

\* def __getitem__(self, index), index not a slice
getitem(h, st, s, index) ==
  IF IndexError(index) # "" THEN R(st, IndexError(index), Num(0))
  ELSE get_value(h, st, s, index.n)

\* for i in range(index): result._get_value(i)
fib_loop(h, st, s, todo) ==
  IF todo = <<>> THEN R(st, "", Num(0))
  ELSE LET r == get_value(h, st, s, Head(todo))
       IN IF r.err # "" THEN r ELSE fib_loop(h, r.st, s, Tail(todo))

\* sum(self[i] + other_seq[index - i] for i in range(index + 1))
matmul_sum(h, st, d, todo, index, acc) ==
  IF todo = <<>> THEN R(st, "", acc)
  ELSE LET i == Head(todo)
           x == getitem(h, st, d.self, IntIndex(i))
           y == getitem(h, x.st, d.other, IntIndex(index - i))
           t == MatMulTerm(x.v, y.v)
           a == ApplyOp("add", acc, t.v)
       IN IF x.err # "" THEN x
          ELSE IF y.err # "" THEN y
          ELSE IF t.err # "" THEN R(y.st, t.err, t.v)
          ELSE matmul_sum(h, y.st, d, Tail(todo), index, a.v)

\* self._generator(index): the closure each constructor stored
generator(h, st, s, index) ==
  LET d == h[s]
      st1 == [st EXCEPT !.gens = @ \cup {<<s, index>>},
                        !.depth = @ + 1,
                        !.maxdepth = Max(@, st.depth + 1)]
      r == CASE d.kind = "const" -> R(st1, "", Num(d.k))
             [] d.kind = "ap" -> R(st1, "", Num(d.start + d.step * index))
             [] d.kind = "cycle" ->
                  R(st1, "", Num(d.vals[(index % Len(d.vals)) + 1]))
             [] d.kind = "fib" ->
                  IF index <= 1 THEN R(st1, "", Num(index))
                  ELSE LET lp == fib_loop(h, st1, s, FibRange(index))
                           r1 == getitem(h, lp.st, s, IntIndex(index - 1))
                           r2 == getitem(h, r1.st, s, IntIndex(index - 2))
                           o == ApplyOp("add", r1.v, r2.v)
                       IN IF lp.err # "" THEN lp
                          ELSE IF r1.err # "" THEN r1
                          ELSE IF r2.err # "" THEN r2
                          ELSE R(r2.st, o.err, o.v)
             [] d.kind = "opseq" ->
                  LET x == generator(h, st1, d.self, index)
                      y == ReadOperand(h, x.st, d.other, index)
                      o == ApplyOp(d.op, x.v, y.v)
                  IN IF x.err # "" THEN x
                     ELSE IF y.err # "" THEN y
                     ELSE R(y.st, o.err, o.v)
             [] d.kind = "opscalar" ->
                  LET x == generator(h, st1, d.self, index)
                      o == ApplyOp(d.op, x.v, Num(d.k))
                  IN IF x.err # "" THEN x ELSE R(x.st, o.err, o.v)
             [] d.kind = "slice" ->
                  generator(h, st1, d.self, d.start + d.step * index)
             [] d.kind = "matmul" ->
                  matmul_sum(h, st1, d, MatMulRange(index), index, Num(0))
  IN [r EXCEPT !.st.depth = st.depth]

(***************************************************************************)
(* Operations.                                                             *)
(***************************************************************************)
Seqs == 1..Len(heap)

NoView == <<>>

Done(op, s, index, r) ==
  [op |-> op, s |-> s, index |-> index, err |-> r.err, v |-> r.v,
   gens |-> r.st.gens, calls |-> r.st.calls, stored |-> r.st.stored,
   evicted |-> r.st.evicted, maxdepth |-> r.st.maxdepth]

\* the indices a caller asks for: valid ones, and with them a negative int
\* and an object that is no int
Indices == {IntIndex(n) : n \in 0..MaxIndex}

AnyIndices == Indices \cup {IntIndex(-1), NonIntIndex}

\* seq[index]
GetItem(s, index) ==
  LET r == getitem(heap, FreshSt(cache), s, index)
  IN /\ cache' = r.st.cache
     /\ last' = Done("get", s, index, r)
     /\ UNCHANGED <<heap, view>>

\* a constructor returned the new InfSequence d: nothing was evaluated
Construct(op, d) ==
  /\ Len(heap) < MaxSeqs
  /\ heap' = Append(heap, d)
  /\ last' = Done(op, Len(heap) + 1, IntIndex(0), R(FreshSt(cache), "", Num(0)))
  /\ UNCHANGED <<cache, view>>

SeqOperand(k) == [seq |-> TRUE, k |-> k]

Scalar(k) == [seq |-> FALSE, k |-> k]

\* seq OP k: new_method(self, k) of _get_method_for_operation
Operator(op, self, k) ==
  /\ IsInt(heap, self)
  /\ k.seq => IsInt(heap, k.k)
  /\ Construct("operator", IF k.seq THEN OpSeq(op, self, k.k)
                           ELSE OpScalar(op, self, k.k))

\* a @ b
MatMul(self, other_seq) ==
  /\ IsInt(heap, self)
  /\ IsInt(heap, other_seq)
  /\ Construct("matmul", MatMulDesc(self, other_seq))

\* seq[start:stop:step]: _slice(start, step, stop)
Slice(s, start, step, stop) ==
  IF stop = None /\ OrOne(step) >= 0
  THEN Construct("slice", SliceDesc(s, start, step))
  ELSE /\ view' = <<[s |-> s,
                     todo |-> Range(OrZero(start),
                                    IF stop = None THEN -1 ELSE stop[1],
                                    OrOne(step))]>>
       /\ last' = Done("view", s, IntIndex(0), R(FreshSt(cache), "", Num(0)))
       /\ UNCHANGED <<heap, cache>>

\* next() of the map object a bounded slice returned
ViewNext ==
  /\ view # NoView
  /\ view[1].todo # <<>>
  /\ LET index == Head(view[1].todo)
         r == get_value(heap, FreshSt(cache), view[1].s, index)
     IN /\ cache' = r.st.cache
        /\ last' = Done("next", view[1].s, IntIndex(index), r)
        /\ view' = <<[view[1] EXCEPT !.todo = Tail(@)]>>
        /\ UNCHANGED heap

InitLast == Done("init", 0, IntIndex(0), R(FreshSt(<<>>), "", Num(0)))

InitWith(heaps) ==
  /\ heap \in heaps
  /\ cache = <<>>
  /\ view = NoView
  /\ last = InitLast

(***************************************************************************)
(* Specifications: the sequences a program starts from, and the operations *)
(* it goes on to apply.                                                    *)
(***************************************************************************)
Operands(scalars) ==
  {SeqOperand(x) : x \in Seqs} \cup {Scalar(x) : x \in scalars}

\* Spec: every constructor and plain indexing, over a progression and the
\* Fibonacci sequence
Init ==
  InitWith({<<ArithmeticProgression(1, 0), Fibonacci>>})

Next ==
  \/ \E s \in Seqs, index \in Indices : GetItem(s, index)
  \/ \E self \in Seqs, k \in Operands({0}) : Operator("floordiv", self, k)
  \/ \E self \in Seqs, other_seq \in Seqs : MatMul(self, other_seq)
  \/ \E s \in Seqs, start \in {None, Some(1)}, step \in {None, Some(2)} :
       Slice(s, start, step, None)

Spec == Init /\ [][Next]_vars

\* SpecArith: the six arithmetic operators with sequence and scalar operands
InitArith ==
  InitWith({<<Fibonacci, ArithmeticProgression(1, 0)>>})

NextArith ==
  \/ \E s \in Seqs, index \in Indices : GetItem(s, index)
  \/ \E op \in OpNames, self \in Seqs, k \in Operands({0, 2, -1}) :
       Operator(op, self, k)

SpecArith == InitArith /\ [][NextArith]_vars

\* SpecSlice: open-ended slices and indexing
InitSlice ==
  InitWith({<<ArithmeticProgression(1, 0), Cycle(<<1, 2, 3>>)>>})

NextSlice ==
  \/ \E s \in Seqs, index \in Indices : GetItem(s, index)
  \/ \E s \in Seqs, start \in {None, Some(1), Some(-1)},
        step \in {None, Some(0), Some(2)} :
       Slice(s, start, step, None)

SpecSlice == InitSlice /\ [][NextSlice]_vars

\* SpecView: bounded slices, and indexing with every kind of index
InitView ==
  InitWith({<<Cycle(<<1, 2, 3>>)>>})

NextView ==
  \/ \E s \in Seqs, index \in AnyIndices : GetItem(s, index)
  \/ \E s \in Seqs, start \in {None, Some(1), Some(-2)},
        step \in {None, Some(0), Some(2), Some(-1)},
        stop \in {None, Some(0), Some(2)} :
       /\ stop = None => OrOne(step) < 0
       /\ Slice(s, start, step, stop)
  \/ ViewNext

SpecView == InitView /\ [][NextView]_vars

\* SpecConv: convolution
InitConv ==
  InitWith({<<ArithmeticProgression(2, 3), Fibonacci>>})

NextConv ==
  \/ \E s \in Seqs, index \in Indices : GetItem(s, index)
  \/ \E self \in Seqs, other_seq \in Seqs : MatMul(self, other_seq)

SpecConv == InitConv /\ [][NextConv]_vars

\* SpecFib: indexing the Fibonacci sequence and another one that shares the
\* cache with it, at the indices up to the capacity of the cache
InitFib ==
  InitWith({<<Fibonacci, ArithmeticProgression(2, 3)>>})

NextFib ==
  \E s \in Seqs, n \in 0..maxsize : GetItem(s, IntIndex(n))

SpecFib == InitFib /\ [][NextFib]_vars

(***************************************************************************)
(* Properties.                                                             *)
(***************************************************************************)
\* generator(index) of sequence s, evaluated from an empty cache
FromScratch(s, n) == generator(heap, FreshSt(<<>>), s, n)

\* seq[n] asked for in the current state
GetNow(s, n) == getitem(heap, FreshSt(cache), s, IntIndex(n))

SameResult(r1, r2) == r1.err = r2.err /\ (r1.err = "" => r1.v = r2.v)

IsGet == last.op = "get"

IsMiss == <<last.s, last.index.n>> \in last.gens

Kind(s) == heap[s].kind

\* C1: determinism under caching.  In every reachable state, whatever gets,
\* hits, misses and evictions came before, seq[i] returns for every
\* sequence and index what generator(i) yields from scratch (value or
\* exception), the last get returned just that, and every cached value is
\* the generator's.
C1_Determinism ==
  /\ \A s \in Seqs, n \in 0..MaxIndex :
       SameResult(GetNow(s, n), FromScratch(s, n))
  /\ IsGet => SameResult(last, FromScratch(last.s, last.index.n))
  /\ \A p \in 1..Len(cache) :
       SameResult([err |-> "", v |-> cache[p].v],
                  FromScratch(cache[p].s, cache[p].i))

\* a get answered from a full cache shared by three sequences, one of them
\* derived
C1_Witness ==
  /\ IsGet /\ last.err = "" /\ ~IsMiss
  /\ Len(cache) = maxsize
  /\ Kind(last.s) \in {"opseq", "matmul", "slice"}
  /\ \E p \in 1..Len(cache) : cache[p].s # last.s /\ cache[p].i = last.index.n

\* C2: index validation.  seq[index] with an index that is no int raises
\* TypeError, with a negative int ValueError; either way no generator is
\* evaluated, the cache is not consulted and it stays as it was.
C2_IndexValidation ==
  [][(last'.op = "get" /\ (~last'.index.int \/ last'.index.n < 0)) =>
       /\ last'.err = (IF last'.index.int THEN "ValueError" ELSE "TypeError")
       /\ last'.gens = {} /\ last'.calls = <<>>
       /\ cache' = cache]_vars

\* seq[-1] raised ValueError while the cache held entries
C2_Witness ==
  /\ IsGet /\ last.index = IntIndex(-1) /\ last.err = "ValueError"
  /\ cache # <<>>

\* the step the claim takes for a slice: the one given, 1 only when unset
ClaimedStep(step) == IF step = None THEN 1 ELSE step[1]

ClaimedStart(start) == IF start = None THEN 0 ELSE start[1]

\* C3: open-ended slice.  For start >= 0 (0 when unset) and step >= 0 (1
\* when unset, an explicit 0 included), r = seq[start::step] has
\* r[i] = seq.generator(start + step * i).
C3_OpenSlice ==
  (/\ IsGet /\ last.err = "" /\ Kind(last.s) = "slice"
   /\ ClaimedStart(heap[last.s].rawstart) >= 0
   /\ ClaimedStep(heap[last.s].rawstep) >= 0) =>
    SameResult(last,
               FromScratch(heap[last.s].self,
                           ClaimedStart(heap[last.s].rawstart)
                             + ClaimedStep(heap[last.s].rawstep) * last.index.n))

\* C4: negative indices are invalid on every access path.  No generator is
\* evaluated at a negative index, no cache entry has one, and a bounded
\* slice raises ValueError when it comes to produce the element of one.
C4_NoNegativeIndex ==
  /\ \A p \in 1..Len(cache) : cache[p].i >= 0
  /\ \A g \in last.gens : g[2] >= 0
  /\ (last.op = "next" /\ last.index.n < 0) => last.err = "ValueError"

IsArith(s) == Kind(s) \in {"opseq", "opscalar"}

\* operator.OP(x, y) raises for these ints
Faults(op, x, y) ==
  \/ op \in {"truediv", "floordiv"} /\ y = 0
  \/ op = "pow" /\ x = 0 /\ y < 0

\* index n of sequence s is one whose evaluation hits a failing operator
RECURSIVE HitsFault(_, _)
HitsFault(s, n) ==
  LET d == heap[s] IN
  CASE d.kind = "opscalar" ->
         HitsFault(d.self, n) \/ Faults(d.op, GetNow(d.self, n).v[1], d.k)
    [] d.kind = "opseq" ->
         \/ HitsFault(d.self, n)
         \/ HitsFault(d.other, n)
         \/ Faults(d.op, GetNow(d.self, n).v[1], GetNow(d.other, n).v[1])
    [] OTHER -> FALSE

C5_Construction ==
  last.op = "operator" =>
    last.err = "" /\ last.gens = {} /\ last.calls = <<>>

C5_ExactlyAtFault ==
  /\ (IsGet /\ IsArith(last.s)) =>
       /\ last.err \in {"", "ZeroDivisionError"}
       /\ last.err # "" <=> HitsFault(last.s, last.index.n)
  /\ \A s \in Seqs, n \in 0..MaxIndex :
       IsArith(s) => (GetNow(s, n).err # "" <=> HitsFault(s, n))

IsResult(op, x, y, v) ==
  CASE op = "add" -> v = <<x + y, 1>>
    [] op = "sub" -> v = <<x - y, 1>>
    [] op = "mul" -> v = <<x * y, 1>>
    [] op = "truediv" -> y # 0 /\ v[2] > 0 /\ v[1] * y = x * v[2]
    [] op = "floordiv" ->
         /\ y # 0 /\ v[2] = 1
         /\ y > 0 => (v[1] * y <= x /\ x < (v[1] + 1) * y)
         /\ y < 0 => (v[1] * y >= x /\ x > (v[1] + 1) * y)
    [] op = "pow" ->
         IF y >= 0 THEN v = <<Pow(x, y), 1>>
         ELSE x # 0 /\ v[2] > 0 /\ v[1] * Pow(x, -y) = v[2]

\* C6: elementwise and scalar arithmetic.  (self OP other)[i] is
\* OP(self[i], other[i]) for a sequence other and OP(self[i], other) for a
\* scalar, self the left operand; with a = arithmetic_progression(1),
\* (a + 2)[i] = i + 2.
C6_Elementwise ==
  (IsGet /\ last.err = "" /\ IsArith(last.s)) =>
    LET d == heap[last.s]
        n == last.index.n
        x == GetNow(d.self, n)
        y == IF d.kind = "opseq" THEN GetNow(d.other, n) ELSE Ok(Num(d.k))
    IN /\ x.err = "" /\ y.err = ""
       /\ IsResult(d.op, x.v[1], y.v[1], last.v)
       /\ (d.kind = "opscalar" /\ d.op = "add" /\ d.k = 2
           /\ heap[d.self] = ArithmeticProgression(1, 0)) => last.v = Num(n + 2)

\* (fibonacci() - arithmetic_progression(1))[2] = 1 - 2
C6_Witness ==
  /\ IsGet /\ last.err = "" /\ Kind(last.s) = "opseq"
  /\ heap[last.s].op = "sub"
  /\ Kind(heap[last.s].self) = "fib" /\ Kind(heap[last.s].other) = "ap"
  /\ last.index.n = 2 /\ last.v = Num(-1)

RECURSIVE ConvSum(_, _, _, _)
ConvSum(a, b, i, n) ==
  IF i > n THEN 0
  ELSE GetNow(a, i).v[1] + GetNow(b, n - i).v[1] + ConvSum(a, b, i + 1, n)

C8_PerSequenceCache ==
  IsGet =>
    \A ev \in last.evicted :
      /\ ev.s = last.s
      /\ ev.own + (IF ev.by = ev.s THEN 1 ELSE 0) > maxsize

RECURSIVE FibNumber(_)
FibNumber(n) == IF n <= 1 THEN n ELSE FibNumber(n - 1) + FibNumber(n - 2)

\* the indices of the _get_value calls the outermost generator made
TopCalls ==
  LET top == SelectSeq(last.calls, LAMBDA c : c[3] = 1)
  IN [j \in 1..Len(top) |-> top[j][2]]

\* C9: Fibonacci fill-forward.  From any reachable cache state,
\* fibonacci()[n] for n up to the capacity of the cache returns the n-th
\* Fibonacci number; when it has to compute it, it first asks _get_value
\* for 0 .. n-1 in increasing order and then for n-1 and n-2; and never
\* more than two activations of the generator are on the stack.
C9_FibonacciFillForward ==
  (IsGet /\ Kind(last.s) = "fib" /\ last.index.n <= maxsize) =>
    LET n == last.index.n
    IN /\ last.err = ""
       /\ last.v = Num(FibNumber(n))
       /\ last.maxdepth <= 2
       /\ \A c \in last.gens : c[1] = last.s /\ c[2] <= n
       /\ (IsMiss /\ n >= 2) => TopCalls = Range(0, n, 1) \o <<n - 1, n - 2>>

\* fibonacci()[maxsize] computed on a miss with an earlier index evaluated
\* again on the way, in a cache that held another sequence's entry
C9_Witness ==
  /\ IsGet /\ Kind(last.s) = "fib" /\ last.index.n = maxsize
  /\ IsMiss /\ Cardinality(last.gens) > 1
  /\ \E ev \in last.evicted : ev.s # last.s

CachedOf(c, s) == SelectSeq(c, LAMBDA e : e.s = s)

IsSuffix(a, b) == Len(a) <= Len(b) /\ SubSeq(b, Len(b) - Len(a) + 1, Len(b)) = a

====
